---- MODULE Spec2Model ----
(***************************************************************************)
(* A model of chdman_helper.py: the filesystem it reads and changes, the   *)
(* external chdman invocations it prints and spawns, and the three         *)
(* operations compress, decompress and info on a file or a directory tree. *)
(* Text (file names, lines of a cue sheet, lines of chdman's output) is a  *)
(* sequence of one-character strings, so that suffix, stem, split, strip,  *)
(* lower and upper are computed the way pathlib and str compute them.      *)
(***************************************************************************)
EXTENDS Integers, Sequences, FiniteSets, TLC

(* ------------------------------ bounds -------------------------------- *)
\* the largest number of regular files the input tree starts with
MaxFiles == 2

(* --------------------------- str operations --------------------------- *)
UpperAlpha ==
    <<"A", "B", "C", "D", "E", "F", "G", "H", "I", "J", "K", "L", "M",
      "N", "O", "P", "Q", "R", "S", "T", "U", "V", "W", "X", "Y", "Z">>
LowerAlpha ==
    <<"a", "b", "c", "d", "e", "f", "g", "h", "i", "j", "k", "l", "m",
      "n", "o", "p", "q", "r", "s", "t", "u", "v", "w", "x", "y", "z">>

\* str.lower() / str.upper() on one character
LowerChar(c) ==
    IF \E i \in 1..26 : UpperAlpha[i] = c
    THEN LowerAlpha[CHOOSE i \in 1..26 : UpperAlpha[i] = c]
    ELSE c
UpperChar(c) ==
    IF \E i \in 1..26 : LowerAlpha[i] = c
    THEN UpperAlpha[CHOOSE i \in 1..26 : LowerAlpha[i] = c]
    ELSE c
lower(s) == [i \in 1..Len(s) |-> LowerChar(s[i])]
upper(s) == [i \in 1..Len(s) |-> UpperChar(s[i])]

IsSpace(c) == c \in {" ", "\t", "\n", "\r"}

\* str.strip(): drop leading and trailing whitespace
strip(s) ==
    LET keep == {i \in 1..Len(s) : ~IsSpace(s[i])}
    IN  IF keep = {} THEN <<>>
        ELSE SubSeq(s, CHOOSE i \in keep : \A j \in keep : i <= j,
                       CHOOSE i \in keep : \A j \in keep : j <= i)

\* str.startswith(p)
startswith(s, p) == Len(s) >= Len(p) /\ SubSeq(s, 1, Len(p)) = p

\* the positions at which sep occurs in s
Occurrences(s, sep) ==
    {i \in 1..(Len(s) - Len(sep) + 1) : SubSeq(s, i, i + Len(sep) - 1) = sep}

\* `sep in s`
contains(s, sep) == Occurrences(s, sep) # {}

\* str.split(sep): the pieces between successive (non-overlapping) sep
RECURSIVE split(_, _)
split(s, sep) ==
    IF ~contains(s, sep) THEN <<s>>
    ELSE LET i == CHOOSE k \in Occurrences(s, sep) :
                      \A j \in Occurrences(s, sep) : k <= j
         IN  <<SubSeq(s, 1, i - 1)>> \o split(SubSeq(s, i + Len(sep), Len(s)), sep)

\* str.split() with no separator: the maximal runs of non-whitespace
RECURSIVE splitws(_)
splitws(s) ==
    LET t == strip(s)
    IN  IF t = <<>> THEN <<>>
        ELSE LET sp == {i \in 1..Len(t) : IsSpace(t[i])}
             IN  IF sp = {} THEN <<t>>
                 ELSE LET i == CHOOSE k \in sp : \A j \in sp : k <= j
                      IN  <<SubSeq(t, 1, i - 1)>> \o splitws(SubSeq(t, i, Len(t)))

(* ------------------------- pathlib operations ------------------------- *)
\* A path is the sequence of its components, each a name; <<>> is the
\* working directory.
name(p) == p[Len(p)]
parent(p) == SubSeq(p, 1, Len(p) - 1)
joinpath(p, fn) == Append(p, fn)

\* the index of the last "." of a name, 0 when it has none (str.rfind)
RDot(n) ==
    LET dots == {i \in 1..Len(n) : n[i] = "."}
    IN  IF dots = {} THEN 0 ELSE CHOOSE i \in dots : \A j \in dots : j <= i

\* PurePath.suffix: the last dot and what follows, unless the dot is the
\* first or the last character of the name
suffix(p) ==
    LET n == name(p)  i == RDot(n)
    IN  IF 1 < i /\ i < Len(n) THEN SubSeq(n, i, Len(n)) ELSE <<>>

\* PurePath.stem
stem(p) ==
    LET n == name(p)  i == RDot(n)
    IN  IF 1 < i /\ i < Len(n) THEN SubSeq(n, 1, i - 1) ELSE n

\* PurePath.with_suffix(ext): the current suffix is replaced by ext
with_suffix(p, ext) ==
    joinpath(parent(p), stem(p) \o ext)

\* the normalized extension the script compares: suffix.strip().lower()
Ext(p) == lower(strip(suffix(p)))

IsPrefix(d, p) == Len(d) < Len(p) /\ SubSeq(p, 1, Len(d)) = d

(* ------------------------ the script's constants ---------------------- *)
EXT_chd == <<".", "c", "h", "d">>
EXT_cue == <<".", "c", "u", "e">>
EXT_gdi == <<".", "g", "d", "i">>
EXT_iso == <<".", "i", "s", "o">>
EXT_avi == <<".", "a", "v", "i">>
EXT_raw == <<".", "r", "a", "w">>
EXT_bin == <<".", "b", "i", "n">>

DISC_IMAGE_EXTS == {EXT_cue, EXT_gdi, EXT_iso}

FORMAT_TO_EXT ==
    [f \in {"cd", "dvd", "ld", "raw"} |->
        CASE f = "cd" -> EXT_cue
          [] f = "dvd" -> EXT_iso
          [] f = "ld" -> EXT_avi
          [] f = "raw" -> EXT_raw]

TAG_CHT2 == <<"C", "H", "T", "2">>
TAG_DVD == <<"D", "V", "D">>
TAG_TO_FORMAT ==
    [t \in {TAG_CHT2, TAG_DVD} |-> IF t = TAG_CHT2 THEN "cd" ELSE "dvd"]

\* one CD's capacity in bytes, the size test of the auto format
CD_BYTES == 783216000

K_FILE == <<"F", "I", "L", "E">>
K_Metadata == <<"M", "e", "t", "a", "d", "a", "t", "a", ":">>
K_TagEq == <<"T", "a", "g", "=", "'">>
QUOTE == <<"\"">>
APOS == <<"'">>
COLON == <<":">>
COLON_SPACE == <<":", " ">>

(* ------------------------ the files of the model ---------------------- *)
InDir == << <<"i", "n">> >>
SubDir == joinpath(InDir, <<"s", ".", "c", "h", "d">>)
OutDir == << <<"o", "u", "t">> >>

p_a_cue == joinpath(InDir, <<"a", ".", "c", "u", "e">>)
p_a_iso == joinpath(InDir, <<"a", ".", "i", "s", "o">>)
p_b_gdi == joinpath(InDir, <<"b", ".", "g", "d", "i">>)
p_c_chd == joinpath(InDir, <<"c", ".", "c", "h", "d">>)
p_D_CHD == joinpath(SubDir, <<"D", ".", "C", "H", "D">>)

\* a path that is neither a file nor a directory
p_x_txt == joinpath(InDir, <<"x", ".", "t", "x", "t">>)

\* the regular files the input tree may start with; InDir and its
\* sub-directory SubDir (whose own name ends in .chd) always exist
TreeFiles == {p_a_cue, p_a_iso, p_b_gdi, p_c_chd, p_D_CHD}

\* the output paths a caller may supply: a directory, or a single file of
\* the command's target extension
o_chd == << <<"o", ".", "c", "h", "d">> >>
o_cue == << <<"o", ".", "c", "u", "e">> >>
OutputPaths(command) ==
    IF command = "compress" THEN {OutDir, o_chd} ELSE {OutDir, o_cue}

\* the regular files that may already be on the output side: the supplied
\* single file, or the file computed for a.cue, a.iso or c.chd in OutDir
PreFiles(command) ==
    IF command = "compress"
    THEN {o_chd, joinpath(OutDir, <<"a", ".", "c", "h", "d">>)}
    ELSE {o_cue, joinpath(OutDir, <<"c", ".", "c", "u", "e">>)}

\* the contents a track-list file may have, as its lines
L_quoted ==
    <<"F", "I", "L", "E", " ", "\"", "a", ".", "i", "s", "o", "\"", " ", "B", "I", "N", "A", "R", "Y">>
L_track ==
    <<" ", " ", "T", "R", "A", "C", "K", " ", "0", "1", " ", "M", "O", "D", "E", "1">>
L_unquoted ==
    <<"F", "I", "L", "E", " ", "m", ".", "b", "i", "n", " ", "B", "I", "N", "A", "R", "Y">>
L_self ==
    <<"F", "I", "L", "E", " ", "\"", "a", ".", "c", "u", "e", "\"", " ", "W", "A", "V", "E">>
L_bare ==
    <<"F", "I", "L", "E">>
CueTexts ==
    { <<L_quoted, L_track>>,
      <<L_unquoted, L_track, L_quoted>>,
      <<L_self, L_unquoted>>,
      <<L_quoted, L_bare>> }

\* what chdman info may write to stdout, as its lines
I_input ==
    <<"I", "n", "p", "u", "t", ":", " ", "c", ".", "c", "h", "d">>
I_drive ==
    <<"I", "n", "p", "u", "t", ":", " ", "C", ":", "\\", "c", ".", "c", "h", "d">>
I_cht2 ==
    <<"M", "e", "t", "a", "d", "a", "t", "a", ":", " ", "T", "a", "g", "=", "'", "C", "H", "T", "2", "'", " ", "I", "d", "x", "=", "0">>
I_dvd ==
    <<"M", "e", "t", "a", "d", "a", "t", "a", ":", " ", "T", "a", "g", "=", "'", "d", "v", "d", " ", "'">>
I_gddd ==
    <<"M", "e", "t", "a", "d", "a", "t", "a", ":", " ", "T", "a", "g", "=", "'", "G", "D", "D", "D", "'">>
I_notag ==
    <<"M", "e", "t", "a", "d", "a", "t", "a", ":", " ", "I", "d", "x", "=", "0">>
I_note ==
    <<"N", "o", "t", "e", ":", " ", "T", "a", "g", "=", "'", "C", "H", "T", "2", "'">>
I_track ==
    <<" ", " ", "T", "R", "A", "C", "K", ":", "1", " ", "T", "Y", "P", "E", ":", "M", "1">>
InfoOutputs ==
    { <<I_input, I_cht2, I_track>>,
      <<I_input, I_gddd, I_notag, I_dvd, I_cht2>>,
      <<I_input, I_note, I_gddd, I_notag>>,
      <<I_drive, I_cht2>>,
      <<>> }

\* the sizes a source file may have: below, at and above one CD; only the
\* auto format reads the size
Sizes == {CD_BYTES - 1, CD_BYTES, CD_BYTES + 1}
SizesFor(format) == IF format = "auto" THEN Sizes ELSE {CD_BYTES}

\* the formats a caller may ask compress for (the script takes any string)
Formats == {"auto", "raw"}

ReturnCodes == {0, 1}

\* an absent format (output_format = None) and an absent path (info has no
\* output)
None == "None"
NoPath == <<>>

(* ------------------------------- state -------------------------------- *)
VARIABLES
    files,   \* the paths that are regular files
    dirs,    \* the paths that are directories
    text,    \* the lines of every track-list file of the tree
    args,    \* the parsed command line
    pc,      \* "parse_args", "main", "walk", "done" or "error"
    err,     \* the kind of the exception that ended the run, "" if none
    todo,    \* the entries rglob has yet to yield
    count,   \* run_info's count of the files it has reported
    log,     \* what the run has printed, spawned and unlinked, in order
    files0,  \* files when the run started
    dirs0    \* dirs when the run started

vars == <<files, dirs, text, args, pc, err, todo, count, log, files0, dirs0>>

is_file(fs, p) == p \in fs.files
is_dir(fs, p) == p \in fs.dirs

\* Path.mkdir(parents=True, exist_ok=True): the path and its ancestors
mkdir(fs, p) ==
    [fs EXCEPT !.dirs = @ \cup {SubSeq(p, 1, k) : k \in 1..Len(p)}]

\* Path.unlink(missing_ok=True): a directory cannot be unlinked
\* (the log keeps the source whose deletion it belongs to, and whether the
\* path was there)
unlink(fs, p, by, role) ==
    IF p \in fs.dirs THEN [fs EXCEPT !.err = "IsADirectoryError"]
    ELSE [fs EXCEPT !.files = @ \ {p},
                    !.log = Append(@, [kind |-> "unlink", path |-> p, by |-> by,
                                       role |-> role, was |-> p \in fs.files])]

\* print(...)
print(fs, ev) == [fs EXCEPT !.log = Append(@, ev)]

\* Path.glob('*.*'): the entries of d alone, not of its sub-directories
glob(fs, d) ==
    {p \in fs.files \cup fs.dirs : parent(p) = d /\ contains(name(p), <<".">>)}

\* Path.rglob('*.*'): every entry below d whose name has a dot in it
rglob(fs, d) ==
    {p \in fs.files \cup fs.dirs : IsPrefix(d, p) /\ contains(name(p), <<".">>)}

\* an argument list [chdman_path, sub + fmt, '--input', i, '--output', o, ...]
Command(sub, fmt, i, o, bin, verbose) ==
    [sub |-> sub, fmt |-> fmt, input |-> i, output |-> o, outputbin |-> bin,
     verbose |-> verbose]

\* subprocess.run(command) of a create or an extract: chdman returns a code
\* and, when that is 0, has written its output (and the .bin of a CD)
run(fs, cmd, rc) ==
    LET made == IF rc # 0 THEN {}
                ELSE {cmd.output} \cup (IF cmd.outputbin = NoPath THEN {}
                                        ELSE {cmd.outputbin})
    IN  [fs EXCEPT !.files = @ \cup made,
                   !.log = Append(@, [kind |-> "run", cmd |-> cmd, rc |-> rc,
                                      stdout |-> <<>>,
                                      existed |-> cmd.output \in fs.files])]

\* subprocess.run(command, capture_output=True) of an info: nothing changes
run_capture(fs, cmd, stdout) ==
    [fs EXCEPT !.log = Append(@, [kind |-> "run", cmd |-> cmd, rc |-> 0,
                                  stdout |-> stdout, existed |-> FALSE])]

\* the body of the `if input_path.is_file():` branch is entered for a file
\* of the accepted extension: the single-file operation is applied to it
enter(fs, input_path) ==
    [fs EXCEPT !.log = Append(@, [kind |-> "file", input |-> input_path])]

\* raise ...: the first exception of a run is the one that ends it
raise(fs, kind) == [fs EXCEPT !.err = kind]

(* ------------------------------ compress ------------------------------ *)
\* the auto format of the earlier revision: by size alone for a .iso
auto_format_by_size(input_ext, st_size) ==
    IF input_ext \in {EXT_cue, EXT_gdi} THEN "cd"
    ELSE IF st_size >= CD_BYTES THEN "dvd"
    ELSE "cd"

\* lines 91-99: the format compress picks when asked for 'auto'
auto_format(input_ext, st_size) ==
    IF input_ext \in {EXT_cue, EXT_gdi} THEN "cd"
    ELSE IF st_size >= CD_BYTES THEN "dvd"
    ELSE IF input_ext = EXT_iso THEN "dvd"
    ELSE "cd"

\* lines 110-113: the file a FILE line of a cue sheet names; <<>> stands for
\* the IndexError of an unquoted line with no second word
companion_name(l) ==
    IF contains(l, QUOTE) THEN split(l, QUOTE)[2]
    ELSE IF Len(splitws(l)) < 2 THEN <<>>
    ELSE strip(splitws(l)[2])

\* lines 108-114: unlink the file of every FILE line, in the order of the
\* lines
RECURSIVE delete_companions(_, _, _)
delete_companions(fs, input_path, lines) ==
    IF lines = <<>> \/ fs.err # "" THEN fs
    ELSE LET l == Head(lines)
             fn == companion_name(l)
             next == IF ~startswith(l, K_FILE) THEN fs
                     ELSE IF fn = <<>> THEN raise(fs, "IndexError")
                     ELSE unlink(fs, joinpath(parent(input_path), fn), input_path,
                                 "companion")
         IN  delete_companions(next, input_path, Tail(lines))

\* a deletion that unlinks the cue sheet first and its files after
delete_input_files_source_first(fs, input_path, lines) ==
    LET gone == unlink(fs, input_path, input_path, "source")
    IN  IF Ext(input_path) # EXT_cue \/ gone.err # "" THEN gone
        ELSE delete_companions(gone, input_path, lines)

\* lines 106-115: what follows the create when deletion was asked for and
\* chdman returned 0
delete_input_files(fs, input_path, lines) ==
    LET opened == IF Ext(input_path) # EXT_cue THEN fs
                  ELSE IF ~is_file(fs, input_path) THEN raise(fs, "FileNotFoundError")
                  ELSE delete_companions(fs, input_path, lines)
    IN  IF opened.err # "" THEN opened
        ELSE unlink(opened, input_path, input_path, "source")

\* lines 70-77: every call of run_compress starts by refusing an output
\* that is a regular file (the message names args, which no scope of the
\* function has: the exception is a NameError) and by making the output
\* directory, or printing the mkdir in a dry run
run_compress_head(fs, a) ==
    IF is_file(fs, a.output) THEN raise(fs, "NameError")
    ELSE IF Ext(a.output) = EXT_chd THEN fs
    ELSE IF a.dryrun THEN print(fs, [kind |-> "print_mkdir", path |-> a.output])
    ELSE mkdir(fs, a.output)

\* lines 80-116: run_compress on a regular file
run_compress_file(fs, input_path, a, lines, rc, st_size) ==
    LET input_ext == Ext(input_path)
        head == run_compress_head(fs, a)
        output_chd_path ==
            IF Ext(a.output) = EXT_chd THEN a.output
            ELSE with_suffix(joinpath(a.output, stem(input_path)), EXT_chd)
        output_format ==
            IF a.format = "auto" THEN auto_format(input_ext, st_size) ELSE a.format
        command == Command("create", output_format, input_path, output_chd_path,
                           NoPath, FALSE)
        entered == enter(head, input_path)
        printed == print(entered, [kind |-> "print", cmd |-> command,
                                   st_size |-> st_size])
        ran == run(printed, command, rc)
    IN  IF head.err # "" THEN head
        ELSE IF input_ext \notin DISC_IMAGE_EXTS THEN raise(head, "InvalidExtension")
        ELSE IF a.dryrun THEN printed
        ELSE IF a.delete_input /\ rc = 0 THEN delete_input_files(ran, input_path, lines)
        ELSE ran

\* a run_compress that walks the directory whatever the output is
run_compress_dir_any_output(fs, input_path, a) ==
    LET head == run_compress_head(fs, a)
    IN  IF head.err # "" THEN head
        ELSE [head EXCEPT !.todo = rglob(head, input_path)]

\* lines 119-131: run_compress on a directory, up to the loop
run_compress_dir(fs, input_path, a) ==
    LET head == run_compress_head(fs, a)
    IN  IF head.err # "" THEN head
        ELSE IF Ext(a.output) = EXT_chd THEN raise(head, "ArityMismatch")
        ELSE [head EXCEPT !.todo = rglob(head, input_path)]

(* ----------------------------- decompress ----------------------------- *)
\* line 159: the format of one Metadata line, None when the line has no
\* Tag=' (IndexError) or its tag is not a key of TAG_TO_FORMAT (KeyError)
line_format(line) ==
    IF ~contains(line, K_TagEq) THEN None
    ELSE LET tag == upper(strip(split(split(line, K_TagEq)[2], APOS)[1]))
         IN  IF tag \in DOMAIN TAG_TO_FORMAT THEN TAG_TO_FORMAT[tag] ELSE None

\* a scan that takes the tag of any line, Metadata or not
RECURSIVE infer_format_any_line(_)
infer_format_any_line(lines) ==
    IF lines = <<>> THEN None
    ELSE IF line_format(Head(lines)) # None THEN line_format(Head(lines))
    ELSE infer_format_any_line(Tail(lines))

\* lines 152-162: the format of the first Metadata line that has one
RECURSIVE infer_format(_)
infer_format(lines) ==
    IF lines = <<>> THEN None
    ELSE IF startswith(Head(lines), K_Metadata) /\ line_format(Head(lines)) # None
    THEN line_format(Head(lines))
    ELSE infer_format(Tail(lines))

\* lines 138-144: as run_compress, for the extensions of a disc image
run_decompress_head(fs, a) ==
    IF is_file(fs, a.output) THEN raise(fs, "NameError")
    ELSE IF Ext(a.output) \in DISC_IMAGE_EXTS THEN fs
    ELSE IF a.dryrun THEN print(fs, [kind |-> "print_mkdir", path |-> a.output])
    ELSE mkdir(fs, a.output)

\* lines 147-182: run_decompress on a regular file
run_decompress_file(fs, input_path, a, stdout, rc) ==
    LET head == run_decompress_head(fs, a)
        command_info == Command("info", "", input_path, NoPath, NoPath, FALSE)
        entered == enter(head, input_path)
        asked == run_capture(print(entered, [kind |-> "print", cmd |-> command_info]),
                             command_info, stdout)
        output_format == infer_format(stdout)
        output_path_ext == Ext(a.output)
        output_img_path ==
            IF output_path_ext \in DISC_IMAGE_EXTS THEN a.output
            ELSE with_suffix(joinpath(a.output, stem(input_path)),
                             FORMAT_TO_EXT[output_format])
        outputbin ==
            IF output_format = "cd"
            THEN with_suffix(joinpath(parent(output_img_path), stem(output_img_path)),
                             EXT_bin)
            ELSE NoPath
        command == Command("extract", output_format, input_path, output_img_path,
                           outputbin, FALSE)
        printed == print(asked, [kind |-> "print", cmd |-> command])
        ran == run(printed, command, rc)
    IN  IF head.err # "" THEN head
        ELSE IF Ext(input_path) # EXT_chd THEN raise(head, "InvalidExtension")
        ELSE IF output_format = None THEN raise(asked, "FormatUnknown")
        ELSE IF /\ output_path_ext \in DISC_IMAGE_EXTS
                /\ output_format = "cd"
                /\ output_path_ext # EXT_cue
        THEN raise(asked, "ExtensionMismatch")
        ELSE IF a.dryrun THEN printed
        ELSE IF a.delete_input /\ rc = 0 THEN unlink(ran, input_path, input_path, "source")
        ELSE ran

\* lines 185-196: run_decompress on a directory, up to the loop
run_decompress_dir(fs, input_path, a) ==
    LET head == run_decompress_head(fs, a)
    IN  IF head.err # "" THEN head
        ELSE IF Ext(a.output) \in DISC_IMAGE_EXTS THEN raise(head, "ArityMismatch")
        ELSE [head EXCEPT !.todo = rglob(head, input_path)]

(* -------------------------------- info -------------------------------- *)
\* line 213: the lines with ': ' in them, each split at every colon and
\* its pieces stripped
info_out(stdout) ==
    LET kept == SelectSeq(stdout, LAMBDA l : contains(l, COLON_SPACE))
    IN  [i \in 1..Len(kept) |->
            [j \in 1..Len(split(kept[i], COLON)) |-> strip(split(kept[i], COLON)[j])]]

\* a run_info that prints the header for every file, first or not
run_info_file_header_always(fs, input_path, a, print_header, stdout) ==
    LET command == Command("info", "", input_path, NoPath, NoPath, a.verbose)
        entered == enter(fs, input_path)
        out == info_out(stdout)
        captured == run_capture(entered, command, stdout)
        header == print(captured,
                        [kind |-> "header", input |-> input_path,
                         line |-> [i \in 1..Len(out) |-> out[i][1]]])
    IN  IF Ext(input_path) # EXT_chd THEN raise(fs, "InvalidExtension")
        ELSE IF a.dryrun THEN print(entered, [kind |-> "print", cmd |-> command])
        ELSE IF \E i \in 1..Len(out) : Len(out[i]) # 2 THEN raise(captured, "ValueError")
        ELSE print(header, [kind |-> "row", input |-> input_path,
                            line |-> [i \in 1..Len(out) |-> out[i][2]]])

\* lines 203-216: run_info on a regular file; `for k,v in out` raises a
\* ValueError for a row that is not a pair, before anything is printed
run_info_file(fs, input_path, a, print_header, stdout) ==
    LET command == Command("info", "", input_path, NoPath, NoPath, a.verbose)
        entered == enter(fs, input_path)
        out == info_out(stdout)
        captured == run_capture(entered, command, stdout)
        header == IF ~print_header THEN captured
                  ELSE print(captured,
                             [kind |-> "header", input |-> input_path,
                              line |-> [i \in 1..Len(out) |-> out[i][1]]])
    IN  IF Ext(input_path) # EXT_chd THEN raise(fs, "InvalidExtension")
        ELSE IF a.dryrun THEN print(entered, [kind |-> "print", cmd |-> command])
        ELSE IF \E i \in 1..Len(out) : Len(out[i]) # 2 THEN raise(captured, "ValueError")
        ELSE print(header, [kind |-> "row", input |-> input_path,
                            line |-> [i \in 1..Len(out) |-> out[i][2]]])

\* lines 219-221: run_info on a directory, up to the loop
run_info_dir(fs, input_path) ==
    [fs EXCEPT !.todo = rglob(fs, input_path)]

(* ------------------------------ the run ------------------------------- *)
Now == [files |-> files, dirs |-> dirs, log |-> log, err |-> "", todo |-> todo]

\* the state a call leaves, and where the run goes from it: an exception
\* ends the run, and so does the end of the loop
Becomes(fs) ==
    /\ files' = fs.files
    /\ dirs' = fs.dirs
    /\ log' = fs.log
    /\ err' = fs.err
    /\ todo' = IF fs.err # "" THEN {} ELSE fs.todo
    /\ pc' = IF fs.err # "" THEN "error"
             ELSE IF fs.todo = {} THEN "done"
             ELSE "walk"

\* the loop has taken p from rglob
Taken(fs, p) == [fs EXCEPT !.todo = @ \ {p}]

Subsets(S, n) == {T \in SUBSET S : Cardinality(T) <= n}

\* the command lines a user may give for a tree: the input is the tree, one
\* of its files, or a path that does not exist
ArgsOf(command, tree) ==
    LET inputs == {InDir, p_x_txt} \cup tree
    IN  IF command = "info"
        THEN [command : {"info"}, input : inputs, output : {NoPath},
              format : {"auto"}, delete_input : {FALSE}, dryrun : BOOLEAN,
              verbose : BOOLEAN]
        ELSE [command : {command}, input : inputs, output : OutputPaths(command),
              format : IF command = "compress" THEN Formats ELSE {"auto"},
              delete_input : BOOLEAN, dryrun : BOOLEAN, verbose : {FALSE}]

\* the contents the track-list files may have; they are read only by a
\* compress that deletes its input
TextsOf(a, tree) ==
    IF /\ a.command = "compress" /\ a.delete_input /\ ~a.dryrun
       /\ tree \cap {p_a_cue, p_b_gdi} # {}
    THEN CueTexts
    ELSE {<<L_quoted, L_track>>}

Init ==
    /\ \E command \in {"compress", "decompress", "info"},
          tree \in Subsets(TreeFiles, MaxFiles), out \in BOOLEAN :
          \E pre \in Subsets(IF command = "info" THEN {} ELSE PreFiles(command), 1) :
             /\ files = tree \cup pre
             /\ dirs = {<<>>, InDir, SubDir}
                       \cup {parent(p) : p \in pre}
                       \cup (IF out /\ command # "info" THEN {OutDir} ELSE {})
             /\ args \in ArgsOf(command, tree)
             /\ text \in TextsOf(args, tree)
    /\ pc = "parse_args"
    /\ err = ""
    /\ todo = {}
    /\ count = 0
    /\ log = <<>>
    /\ files0 = files
    /\ dirs0 = dirs

\* lines 52-65: parse_args refuses a missing input and an output that is a
\* regular file
ParseArgs ==
    /\ pc = "parse_args"
    /\ IF ~(is_file(Now, args.input) \/ is_dir(Now, args.input))
       THEN Becomes(raise(Now, "PathNotFound"))
       ELSE IF args.command # "info" /\ is_file(Now, args.output)
       THEN Becomes(raise(Now, "OutputExists"))
       ELSE /\ pc' = "main"
            /\ UNCHANGED <<files, dirs, log, err, todo>>
    /\ UNCHANGED <<text, args, count, files0, dirs0>>

\* lines 237-245, 68-133: main calls run_compress on the input
RunCompress ==
    /\ pc = "main"
    /\ args.command = "compress"
    /\ IF is_file(Now, args.input)
       THEN \E rc \in ReturnCodes, st_size \in SizesFor(args.format) :
               Becomes(run_compress_file(Now, args.input, args, text, rc, st_size))
       ELSE IF is_dir(Now, args.input)
       THEN Becomes(run_compress_dir(Now, args.input, args))
       ELSE Becomes(raise(Now, "PathNotFound"))
    /\ UNCHANGED <<text, args, count, files0, dirs0>>

\* lines 122-131: one turn of the loop over rglob
CompressNext ==
    /\ pc = "walk"
    /\ args.command = "compress"
    /\ \E p \in todo :
          IF is_file(Now, p) /\ Ext(p) \in DISC_IMAGE_EXTS
          THEN \E rc \in ReturnCodes, st_size \in SizesFor(args.format) :
                  Becomes(run_compress_file(Taken(Now, p), p, args, text, rc, st_size))
          ELSE Becomes(Taken(Now, p))
    /\ UNCHANGED <<text, args, count, files0, dirs0>>

\* lines 246-253, 136-198: main calls run_decompress on the input
RunDecompress ==
    /\ pc = "main"
    /\ args.command = "decompress"
    /\ IF is_file(Now, args.input)
       THEN \E rc \in ReturnCodes, stdout \in InfoOutputs :
               Becomes(run_decompress_file(Now, args.input, args, stdout, rc))
       ELSE IF is_dir(Now, args.input)
       THEN Becomes(run_decompress_dir(Now, args.input, args))
       ELSE Becomes(raise(Now, "PathNotFound"))
    /\ UNCHANGED <<text, args, count, files0, dirs0>>

\* lines 188-196: one turn of the loop over rglob
DecompressNext ==
    /\ pc = "walk"
    /\ args.command = "decompress"
    /\ \E p \in todo :
          IF is_file(Now, p) /\ Ext(p) = EXT_chd
          THEN \E rc \in ReturnCodes, stdout \in InfoOutputs :
                  Becomes(run_decompress_file(Taken(Now, p), p, args, stdout, rc))
          ELSE Becomes(Taken(Now, p))
    /\ UNCHANGED <<text, args, count, files0, dirs0>>

\* lines 254-260, 201-232: main calls run_info on the input
RunInfo ==
    /\ pc = "main"
    /\ args.command = "info"
    /\ IF is_file(Now, args.input)
       THEN \E stdout \in InfoOutputs :
               Becomes(run_info_file(Now, args.input, args, TRUE, stdout))
       ELSE IF is_dir(Now, args.input)
       THEN Becomes(run_info_dir(Now, args.input))
       ELSE Becomes(raise(Now, "PathNotFound"))
    /\ count' = 0
    /\ UNCHANGED <<text, args, files0, dirs0>>

\* lines 221-230: one turn of the loop over rglob
InfoNext ==
    /\ pc = "walk"
    /\ args.command = "info"
    /\ \E p \in todo :
          IF is_file(Now, p) /\ Ext(p) = EXT_chd
          THEN \E stdout \in InfoOutputs :
                  LET fs == run_info_file(Taken(Now, p), p, args, count = 0, stdout)
                  IN  /\ Becomes(fs)
                      /\ count' = IF fs.err = "" THEN count + 1 ELSE count
          ELSE /\ Becomes(Taken(Now, p))
               /\ count' = count
    /\ UNCHANGED <<text, args, files0, dirs0>>

Next ==
    \/ ParseArgs
    \/ RunCompress
    \/ CompressNext
    \/ RunDecompress
    \/ DecompressNext
    \/ RunInfo
    \/ InfoNext

Spec == Init /\ [][Next]_vars

(* ------------------------- reading the log ---------------------------- *)
Events(kind) == {i \in DOMAIN log : log[i].kind = kind}

\* the create and extract invocations that were spawned
MainRuns == {i \in Events("run") : log[i].cmd.sub \in {"create", "extract"}}

\* the turns at which the single-file operation was applied to p
Applied(p) == {i \in Events("file") : log[i].input = p}

\* the input is a directory, one regular file
DirInput == args.input \in dirs0
FileInput == args.input \in files0

\* the extensions a command takes its sources from
SourceExts(command) ==
    IF command = "compress" THEN DISC_IMAGE_EXTS ELSE {EXT_chd}

\* the regular files of the tree, at the start, that the command is for
Matching ==
    {p \in files0 : IsPrefix(args.input, p) /\ lower(suffix(p)) \in SourceExts(args.command)}

(* ------------------------------- claims ------------------------------- *)
\* C1: no create or extract invocation is ever spawned on an output path
\* that is a regular file at that moment, whether the caller supplied the
\* path or the script computed it in the output directory.
C1_NoRunOnExistingOutput ==
    \A i \in MainRuns : ~log[i].existed

\* C2: in a dry run no process is spawned and the filesystem stays as it
\* was at the start.
C2_DryRunInert ==
    args.dryrun => /\ Events("run") = {}
                   /\ files = files0
                   /\ dirs = dirs0

\* C9: every process that is spawned had its command line printed earlier
\* in the same run.
C9_PrintedBeforeRun ==
    \A i \in Events("run") :
        \E j \in Events("print") : j < i /\ log[j].cmd = log[i].cmd

\* C10: a single-file compress or decompress, dry-run off, that ends with
\* InvalidExtension has spawned nothing and left the filesystem unchanged.
C10_InvalidExtensionInert ==
    (/\ args.command \in {"compress", "decompress"}
     /\ FileInput
     /\ ~args.dryrun
     /\ err = "InvalidExtension")
    => /\ Events("run") = {}
       /\ files = files0
       /\ dirs = dirs0

\* C4: with format auto, whatever the size of the source, a .cue or .gdi
\* source is compressed with createcd and a .iso source with createdvd, and
\* no create command, printed or spawned, ever carries the format auto.
C4_AutoFormat ==
    \A i \in Events("print") \cup Events("run") :
        log[i].cmd.sub = "create" =>
            /\ log[i].cmd.fmt # "auto"
            /\ args.format = "auto" =>
                  LET ext == lower(suffix(log[i].cmd.input))
                  IN  /\ ext \in {EXT_cue, EXT_gdi} => log[i].cmd.fmt = "cd"
                      /\ ext = EXT_iso => log[i].cmd.fmt = "dvd"

\* a single .iso below one CD's size was compressed with createdvd
C4_Witness ==
    /\ FileInput
    /\ args.format = "auto"
    /\ \E i \in Events("print"), j \in Events("run") :
          /\ log[i].cmd.sub = "create"
          /\ log[j].cmd = log[i].cmd
          /\ lower(suffix(log[i].cmd.input)) = EXT_iso
          /\ log[i].st_size < CD_BYTES
          /\ log[i].cmd.fmt = "dvd"

\* the lines of chdman's output that give a format, and the first of them
Recognized(line) == startswith(line, K_Metadata) /\ line_format(line) # None
FirstRecognized(lines) ==
    LET all == {k \in DOMAIN lines : Recognized(lines[k])}
    IN  {k \in all : \A j \in all : k <= j}
InfoRuns == {i \in Events("run") : log[i].cmd.sub = "info"}

\* C5: in a decompress, every extract command carries the format of the
\* first recognized Metadata line of the info output for that file; an info
\* output with no recognized line ends the run at once with FormatUnknown:
\* it is the last thing the run did, no extract follows for that file and
\* no sibling is looked at.
C5_FormatFromFirstTag ==
    args.command = "decompress" =>
        /\ \A i \in Events("print") \cup Events("run") :
              log[i].cmd.sub = "extract" =>
                  \E j \in InfoRuns :
                      /\ j < i
                      /\ log[j].cmd.input = log[i].cmd.input
                      /\ \E k \in FirstRecognized(log[j].stdout) :
                            log[i].cmd.fmt = line_format(log[j].stdout[k])
        /\ \A j \in InfoRuns :
              FirstRecognized(log[j].stdout) = {} =>
                  /\ j = Len(log)
                  /\ err = "FormatUnknown"
                  /\ pc = "error"
                  /\ todo = {}
        /\ err = "FormatUnknown" =>
              /\ log # <<>>
              /\ Len(log) \in InfoRuns
              /\ FirstRecognized(log[Len(log)].stdout) = {}

\* a batch ended with FormatUnknown on one file, and a sibling it had not
\* reached was never looked at
C5_Witness ==
    /\ args.command = "decompress"
    /\ DirInput
    /\ err = "FormatUnknown"
    /\ \E p \in Matching : Applied(p) = {}
    /\ \E p \in Matching : Applied(p) # {}

\* the FILE lines of a cue sheet, and the files they name
Directives(lines) ==
    {k \in DOMAIN lines : startswith(lines[k], K_FILE) /\ companion_name(lines[k]) # <<>>}
Unlinks == Events("unlink")
SourceUnlinks == {i \in Unlinks : log[i].role = "source"}

\* a file is unlinked only when deletion was asked for, the run is no dry
\* run and the create or extract of its source has returned 0; nothing
\* leaves the filesystem otherwise
DeletionGated ==
    /\ \A i \in Unlinks :
          /\ args.delete_input
          /\ ~args.dryrun
          /\ \E j \in MainRuns :
                j < i /\ log[j].cmd.input = log[i].by /\ log[j].rc = 0
    /\ \A j \in MainRuns :
          log[j].rc # 0 => \A i \in Unlinks : log[i].by # log[j].cmd.input
    /\ files0 \ files \subseteq {log[i].path : i \in Unlinks}

\* before a compressed source with one of the extensions exts is unlinked,
\* the file of each of its FILE lines has been
CompanionsFirst(exts) ==
    \A s \in SourceUnlinks :
        (args.command = "compress" /\ lower(suffix(log[s].path)) \in exts) =>
            \A k \in Directives(text) :
                \E i \in Unlinks :
                    /\ i < s
                    /\ log[i].role = "companion"
                    /\ log[i].by = log[s].path
                    /\ log[i].path = joinpath(parent(log[s].path),
                                              companion_name(text[k]))

\* an unlink of a path that is not there raises nothing
MissingTolerated == err # "FileNotFoundError"

\* C3 as stated: deletion is gated by the request, the mode and the return
\* code 0; the files named by the FILE lines of a track-list source (.cue
\* or .gdi) are unlinked before the source; a missing file is no error.
C3_AsStated ==
    /\ DeletionGated
    /\ CompanionsFirst({EXT_cue, EXT_gdi})
    /\ MissingTolerated

\* C3, amended: the same, with the FILE lines read for a .cue source only.
C3_DeletionGatedAndOrdered ==
    /\ DeletionGated
    /\ CompanionsFirst({EXT_cue})
    /\ MissingTolerated

\* a cue sheet that names itself and a missing file was compressed and
\* deleted: both its companion and the source were already gone when their
\* unlink came, and the run ended without error
C3_Witness ==
    /\ pc = "done"
    /\ \E s \in SourceUnlinks, i \in Unlinks, m \in Unlinks :
          /\ lower(suffix(log[s].path)) = EXT_cue
          /\ ~log[s].was
          /\ i < s /\ log[i].role = "companion" /\ log[i].was
          /\ m < s /\ log[m].role = "companion" /\ ~log[m].was

\* C6 as stated: a directory run that ends without error has applied the
\* single-file operation exactly once to every matching regular file of the
\* tree and to no other file.
C6_AsStated ==
    (DirInput /\ pc = "done") =>
        /\ \A p \in Matching : Cardinality(Applied(p)) = 1
        /\ \A i \in Events("file") : log[i].input \in Matching

\* C6, amended: ... at most once to every matching regular file and to no
\* other file; a matching file is passed over only when the run itself had
\* unlinked it before, as the companion of a cue sheet.
C6_EachMatchingFileOnce ==
    (DirInput /\ pc = "done") =>
        /\ \A p \in Matching :
              \/ Cardinality(Applied(p)) = 1
              \/ /\ Applied(p) = {}
                 /\ \E i \in Unlinks :
                       log[i].path = p /\ log[i].role = "companion" /\ log[i].was
        /\ \A i \in Events("file") : log[i].input \in Matching

\* a directory run with deletion ended without error: one matching file was
\* compressed, a second had been unlinked as its companion and was passed
\* over
C6_Witness ==
    /\ DirInput
    /\ pc = "done"
    /\ args.delete_input
    /\ \E p \in Matching : Cardinality(Applied(p)) = 1
    /\ \E p \in Matching : Applied(p) = {}

\* the output names a single file of the command's target extension
SingleTarget ==
    IF args.command = "compress" THEN lower(suffix(args.output)) = EXT_chd
    ELSE lower(suffix(args.output)) \in DISC_IMAGE_EXTS
ArityCase ==
    /\ args.command \in {"compress", "decompress"}
    /\ DirInput
    /\ SingleTarget
    /\ pc \notin {"parse_args", "main"}

\* C7 as stated: a directory input with a single-file output fails with
\* ArityMismatch, no file visited and no process spawned.
C7_AsStated ==
    ArityCase => /\ err = "ArityMismatch"
                 /\ Events("file") = {}
                 /\ Events("run") = {}

\* C7, amended: ... fails with ArityMismatch, or with OutputExists when the
\* output path is a regular file already, no file visited and no process
\* spawned.
C7_DirectoryNeedsDirectory ==
    ArityCase => /\ err = IF args.output \in files0 THEN "OutputExists"
                          ELSE "ArityMismatch"
                 /\ pc = "error"
                 /\ Events("file") = {}
                 /\ Events("run") = {}

\* a tree with files to compress or decompress was refused for its output
C7_Witness ==
    /\ ArityCase
    /\ Matching # {}
    /\ err = "ArityMismatch"

\* the header and the rows info has printed, in order
Table == SelectSeq(log, LAMBDA e : e.kind \in {"header", "row"})
HeaderThenRows(t) ==
    t # <<>> => /\ t[1].kind = "header"
                /\ Len(t) >= 2
                /\ \A k \in 2..Len(t) : t[k].kind = "row"

====
